---- MODULE Spec2Model ----
(***************************************************************************)
(* Model of GenericAlign.trim_alignment (src/phyluce/generic_align.py):    *)
(* the three-pass trimming of a multiple-sequence alignment.               *)
(*                                                                         *)
(*   pass A  stage_one_trimming   block clip found by running_average      *)
(*   pass B  stage_two_trimming   per-row masking against the consensus    *)
(*   pass C  stage_one_trimming   block clip of the masked alignment       *)
(*                                                                         *)
(* An alignment is a record [kind, records]; kind "msa" carries a sequence *)
(* of [id, seq] records, kind "None" is Python's None.  Column and trim    *)
(* indices are 0-based as in the source; TLA+ sequences are 1-based, so    *)
(* column j of a row is seq[j + 1].  An uncaught Python exception ends the *)
(* call with outcome "FAULT".                                              *)
(*                                                                         *)
(* Floating point: the thresholds are percentages and a window score is    *)
(* the integer count of flagged columns in the window.  numpy sums count   *)
(* copies of 1.0/window_size in order; for the windows used here (1 and 4: *)
(* exact binary fractions; 20 with threshold 0.75: fifteen copies of 0.05  *)
(* sum to 0.7500000000000001, fourteen to 0.7000000000000001; 5 with 0.99: *)
(* five copies of 0.2 sum to 1.0, four to 0.8) the float comparison agrees *)
(* with the integer comparison count * 100 >= threshold * window_size.     *)
(***************************************************************************)
EXTENDS Integers, Sequences, FiniteSets, TLC

VARIABLES
    alignment,      \* self.alignment: the input alignment
    window_size,    \* trim_alignment's window_size
    threshold,      \* trim_alignment's threshold, in percent
    proportion,     \* trim_alignment's proportion, in percent
    method,         \* trim_alignment's method ("unset" before the call)
    pc,             \* position in trim_alignment
    s1_trimmed,     \* local s1_trimmed
    s2_trimmed,     \* local s2_trimmed
    trimmed,        \* self.trimmed
    clipA,          \* what running_average returned inside pass A
    clipC,          \* what running_average returned inside pass C
    rowTrims,       \* pass B: per emitted row, the trim points it was masked with
    started,        \* the passes started so far, in order
    returned,       \* how each started pass ended: "msa", "None" or a fault
    outcome         \* "RUNNING", "DONE", "DROPPED" or "FAULT"

vars == <<alignment, window_size, threshold, proportion, method, pc,
          s1_trimmed, s2_trimmed, trimmed, clipA, clipC, rowTrims,
          started, returned, outcome>>

----------------------------------------------------------------------------
(* Bounds of the checked inputs *)

MaxRows == 4
MaxWidth == 10
MaxRun == 3

----------------------------------------------------------------------------
(* Values *)

Min(a, b) == IF a <= b THEN a ELSE b
Max(a, b) == IF a >= b THEN a ELSE b

Gap == "-"
Missing == "?"
Bases == <<"A", "C", "G", "T">>
Chars == {"A", "C", "G", "T", Gap, Missing}

None == [kind |-> "None", records |-> <<>>]
MSA(recs) == [kind |-> "msa", records |-> recs]

\* The fault kinds a stage can end with instead of returning.
Faults == {"IndexError", "ValueError", "NameError", "AttributeError", "TypeError"}
IsFault(res) == res.kind \in Faults

\* No clip computed (the pass did not run, or faulted before the scan ended).
NoClip == [kind |-> "unset", start |-> 0, end |-> 0]

\* len(alignment)
Taxa(a) == Len(a.records)

\* alignment.get_alignment_length()
Width(a) == IF Len(a.records) = 0 THEN 0 ELSE Len(a.records[1].seq)

\* A slice that is not clamped: positions past the end are filled with gaps.
SliceUnclamped(seq, lo, hi) ==
    IF lo >= hi THEN <<>>
    ELSE [c \in 1..(hi - lo) |-> IF lo + c <= Len(seq) THEN seq[lo + c] ELSE "-"]

\* Python's seq[lo:hi] for 0 <= lo, 0 <= hi: the slice is clamped to the sequence.
Slice(seq, lo, hi) ==
    LET h == Min(hi, Len(seq))
    IN  IF lo >= h THEN <<>> ELSE [c \in 1..(h - lo) |-> seq[lo + c]]

\* set(trim) == set(['-']): the row is not empty and holds gap markers only.
\* The second test of the source, set(trim) != (['?']), compares a set with a
\* list and is always true, so it lets every row through.
OnlyGaps(seq) == Len(seq) > 0 /\ \A c \in 1..Len(seq) : seq[c] = Gap

----------------------------------------------------------------------------
(* numpy.convolve(flags, repeat(1.0, w) / w, 'same') *)

\* The output has max(len(flags), w) entries.
ConvLen(n, w) == Max(n, w)

\* Entry i of the 'same' output is entry i + (min(n, w) - 1) div 2 of the full
\* convolution.
ConvOffset(n, w) == (Min(n, w) - 1) \div 2

\* w times entry i of the output: the number of flagged positions j of flags
\* with k - w + 1 <= j <= k, where k is the index into the full convolution.
WindowCount(flags, w, i) ==
    LET k == i + ConvOffset(Len(flags), w)
    IN  Cardinality({j \in 0..(Len(flags) - 1) :
                        j >= k - w + 1 /\ j <= k /\ flags[j + 1]})

----------------------------------------------------------------------------
(* running_average *)

\* alignment[:, column]
Column(a, j) == [r \in 1..Taxa(a) |-> a.records[r].seq[j + 1]]

CountIn(col, ch) == Cardinality({r \in DOMAIN col : col[r] = ch})

\* int(round(proportion * taxa, 0)), proportion in percent; Python 2 rounds
\* halves away from zero.
majority_of_characters(prop, taxa) == (2 * prop * taxa + 100) \div 200

\* column_count.most_common(1)[0][1] after del column_count['-'];
\* 0 stands for the empty counter, which the caller tests first.
MostCommonCount(col) ==
    LET counts == {CountIn(col, ch) : ch \in Chars \ {Gap}}
    IN  CHOOSE m \in counts : \A x \in counts : x <= m

\* One column's entry of good_alignment: "good" (True), "bad" (False), or
\* "IndexError" when most_common(1) is empty and [0] raises.
ColumnClass(col, majority) ==
    IF CountIn(col, Gap) <= majority
    THEN IF MostCommonCount(col) = 0 THEN "IndexError"
         ELSE IF MostCommonCount(col) >= majority THEN "good"
         ELSE "bad"
    ELSE "bad"

\* The comparison made strict: running_average > threshold.
MeetsThresholdStrict(count, w, thr) == count * 100 > thr * w

\* running_average >= threshold for one entry
MeetsThreshold(count, w, thr) == count * 100 >= thr * w

running_average(a, w, thr, prop) ==
    LET n        == Width(a)
        majority == majority_of_characters(prop, Taxa(a))
        class    == [c \in 1..n |-> ColumnClass(Column(a, c - 1), majority)]
        flags    == [c \in 1..n |-> class[c] = "good"]
        good     == {i \in 0..(ConvLen(n, w) - 1) :
                        MeetsThreshold(WindowCount(flags, w, i), w, thr)}
    IN  IF \E c \in 1..n : class[c] = "IndexError"
        THEN [kind |-> "IndexError", start |-> 0, end |-> 0]
        ELSE IF n = 0
        THEN [kind |-> "ValueError", start |-> 0, end |-> 0]
        ELSE IF good = {}
        THEN [kind |-> "None", start |-> 0, end |-> 0]
        ELSE [kind  |-> "clip",
              start |-> CHOOSE i \in good : \A x \in good : i <= x,
              end   |-> CHOOSE i \in good : \A x \in good : x <= i]

----------------------------------------------------------------------------
(* stage_one_trimming *)

\* "if start >= 0 and end": false for (None, None) and for end = 0.
ClipUsable(clip) == clip.kind = "clip" /\ clip.end # 0

\* sequence[start:end] of one record; the label is kept.
ClipRecord(rec, clip) == [id |-> rec.id, seq |-> Slice(rec.seq, clip.start, clip.end)]

\* The loop skipping a row that cannot be kept ("continue") instead of giving
\* up the alignment.
ClipRowsSkip(a, clip) ==
    IF ~ClipUsable(clip) THEN None
    ELSE MSA(SelectSeq([r \in 1..Taxa(a) |-> ClipRecord(a.records[r], clip)],
                       LAMBDA rec : ~OnlyGaps(rec.seq)))

\* The loop over the rows: every row is clipped and appended, or the first
\* row that cannot be kept turns the result into None.
ClipRows(a, clip) ==
    IF \E r \in 1..Taxa(a) :
            ~ClipUsable(clip) \/ OnlyGaps(ClipRecord(a.records[r], clip).seq)
    THEN None
    ELSE MSA([r \in 1..Taxa(a) |-> ClipRecord(a.records[r], clip)])

\* stage_one_trimming(alignment, ...): an alignment, None, or a fault, with
\* the (start, end) the scan returned.  len(None) in running_average raises
\* TypeError.
stage_one_trimming(a, w, thr, prop) ==
    IF a.kind = "None"
    THEN [kind |-> "TypeError", records |-> <<>>, clip |-> NoClip]
    ELSE LET clip == running_average(a, w, thr, prop)
             res  == ClipRows(a, clip)
         IN  IF IsFault(clip)
             THEN [kind |-> clip.kind, records |-> <<>>, clip |-> clip]
             ELSE [kind |-> res.kind, records |-> res.records, clip |-> clip]

----------------------------------------------------------------------------
(* stage_two_trimming *)

\* The window of the row scan: stage_two_trimming's window_size default.
Stage2Window == 5

\* AlignInfo.SummaryInfo(alignment).dumb_consensus() with 'X' replaced by '-',
\* one column: gap markers are not counted; the single most frequent character
\* is called when it makes up at least 0.7 of the counted characters, and the
\* column is left '-' otherwise (a tie, too few, or nothing counted).
ConsensusChar(col) ==
    LET atoms     == {ch \in Chars \ {Gap} : CountIn(col, ch) > 0}
        num_atoms == Cardinality({r \in DOMAIN col : col[r] # Gap})
        max_size  == MostCommonCount(col)
        max_atoms == {ch \in atoms : CountIn(col, ch) = max_size}
    IN  IF Cardinality(max_atoms) = 1 /\ max_size * 10 >= 7 * num_atoms
        THEN CHOOSE ch \in max_atoms : TRUE
        ELSE Gap

\* _alignment_consensus
alignment_consensus(a) == [c \in 1..Width(a) |-> ConsensusChar(Column(a, c - 1))]

\* The length of the gap run matched by "^([-]+)" (0 when there is none).
LeadingGaps(seq) ==
    CHOOSE k \in 0..Len(seq) :
        /\ \A c \in 1..k : seq[c] = Gap
        /\ (k = Len(seq) \/ seq[k + 1] # Gap)

\* The length of the gap run matched by "([-]+)$".
TrailingGaps(seq) ==
    CHOOSE k \in 0..Len(seq) :
        /\ \A c \in (Len(seq) - k + 1)..Len(seq) : seq[c] = Gap
        /\ (k = Len(seq) \/ seq[Len(seq) - k] # Gap)

\* _get_ends: (start_gap, len(seq) - end_gap)
get_ends(seq) == [start |-> LeadingGaps(seq), end |-> Len(seq) - TrailingGaps(seq)]

\* compare = (seq_array == consensus_array[start:end])
Compare(seq, consensus, ends) ==
    LET row  == Slice(seq, ends.start, ends.end)
        cons == Slice(consensus, ends.start, ends.end)
    IN  [c \in 1..Len(row) |-> row[c] = cons[c]]

\* running_average > 0.99 for one entry
AboveProxy(count, w) == count * 100 > 99 * w

\* gm = (running_average > 0.99), as a 1-based sequence
MatchWindows(compare) ==
    [c \in 1..ConvLen(Len(compare), Stage2Window) |->
        AboveProxy(WindowCount(compare, Stage2Window, c - 1), Stage2Window)]

\* numpy.all(g[i:i+5] == True): the slice is cut at the end of g.
RunAt(g, i) == \A c \in (i + 1)..Min(i + 5, Len(g)) : g[c]

\* The first i of the loop "for i in xrange(g.size)" with RunAt, or -1 when the
\* loop ends without a break.
FirstRun(g) ==
    IF \E i \in 0..(Len(g) - 1) : RunAt(g, i)
    THEN CHOOSE i \in 0..(Len(g) - 1) :
            RunAt(g, i) /\ \A x \in 0..(i - 1) : ~RunAt(g, x)
    ELSE -1

\* gm[::-1]
Reversed(g) == [c \in 1..Len(g) |-> g[Len(g) + 1 - c]]

\* The edges cut off instead of overwritten.
MaskRowCut(seq, lo, hi) == Slice(seq, lo, hi)

\* orig_seq_array[:lo] = '-' and orig_seq_array[hi:] = '-'
MaskRow(seq, lo, hi) ==
    [c \in 1..Len(seq) |-> IF c - 1 < lo \/ c - 1 >= hi THEN Gap ELSE seq[c]]

\* bad_start and bad_end are locals of stage_two_trimming, assigned only when a
\* row's loop breaks: a row without a run leaves them as the previous row set
\* them, or unbound when no row has set them yet.
Unbound == [bound |-> FALSE, bad_start |-> 0, bad_end |-> 0, row |-> 0]

\* One row of the loop, given the locals as the rows before left them.
RowStep(rec, r, consensus, carry) ==
    LET ends    == get_ends(rec.seq)
        compare == Compare(rec.seq, consensus, ends)
        gm      == MatchWindows(compare)
        fwd     == FirstRun(gm)
        bwd     == FirstRun(Reversed(gm))
        now     == IF fwd >= 0 /\ bwd >= 0
                   THEN [bound |-> TRUE, bad_start |-> fwd,
                         bad_end |-> Len(gm) - bwd, row |-> r]
                   ELSE carry
        trim    == MaskRow(rec.seq, ends.start + now.bad_start, ends.start + now.bad_end)
    IN  [kind  |-> IF Len(compare) = 0 THEN "ValueError"
                   ELSE IF ~now.bound THEN "NameError"
                   ELSE IF OnlyGaps(trim) THEN "None"
                   ELSE "row",
         rec   |-> [id |-> rec.id, seq |-> trim],
         carry |-> now,
         trim  |-> [start |-> ends.start, bad_start |-> now.bad_start,
                    bad_end |-> now.bad_end, from |-> now.row]]

RECURSIVE RowLoop(_, _, _, _, _, _)
RowLoop(a, consensus, r, carry, recs, trims) ==
    IF r > Taxa(a)
    THEN [kind |-> "msa", records |-> recs, trims |-> trims]
    ELSE LET step == RowStep(a.records[r], r, consensus, carry)
         IN  IF step.kind = "row"
             THEN RowLoop(a, consensus, r + 1, step.carry,
                          Append(recs, step.rec), Append(trims, step.trim))
             ELSE [kind |-> step.kind, records |-> <<>>, trims |-> trims]

\* stage_two_trimming(s1_trimmed): [kind, records] as for stage one, with the
\* trim points of the rows appended.  SummaryInfo(None).dumb_consensus() raises
\* AttributeError.
stage_two_trimming(a) ==
    IF a.kind = "None"
    THEN [kind |-> "AttributeError", records |-> <<>>, trims |-> <<>>]
    ELSE RowLoop(a, alignment_consensus(a), 1, Unbound, <<>>, <<>>)

----------------------------------------------------------------------------
(* Inputs *)

\* The conserved sequence: ACGTACGT...
Base(i) == Bases[(i % 4) + 1]

\* A character that differs from the conserved one at column i.
Mis(i) == Bases[((i + 1) % 4) + 1]

CharOf(k, i) ==
    CASE k = "b" -> Base(i)
      [] k = "x" -> Mis(i)
      [] k = "-" -> Gap
      [] OTHER   -> Missing

\* A row of width w: a run of pat.ll characters of kind pat.lk at its start
\* (and, mirrored, at its end when pat.sym), pat.mid everywhere else.
MakeRow(w, pat) ==
    [c \in 1..w |->
        IF c - 1 < pat.ll \/ (pat.sym /\ c - 1 >= w - pat.ll)
        THEN CharOf(pat.lk, c - 1)
        ELSE CharOf(pat.mid, c - 1)]

\* Each row is described once: an empty run has no kind and no mirror image,
\* and a run differs from the rest of its row.
Patterns ==
    { p \in [lk : {"b", "x", "-"}, ll : 0..MaxRun,
             mid : {"b", "x", "-", "?"}, sym : BOOLEAN] :
        /\ p.ll = 0 => (p.lk = "b" /\ ~p.sym)
        /\ p.ll > 0 => p.lk # p.mid }

Clean == [lk |-> "b", ll |-> 0, mid |-> "b", sym |-> FALSE]

\* n rows of width w, all of pattern common except row odd (0: none), which has
\* pattern pat.  Labels are the row numbers.
MakeAlignment(n, w, common, odd, pat) ==
    MSA([r \in 1..n |-> [id  |-> r,
                          seq |-> MakeRow(w, IF r = odd THEN pat ELSE common)]])

\* (window_size, threshold, proportion) of the checked calls.
Params ==
    { <<1, 100, 65>>, <<4, 50, 50>>, <<4, 75, 100>> }

\* trim_alignment's defaults.
Defaults == <<20, 75, 65>>

\* The end-to-end scenarios' shape: 4 rows of width 30, identical but for at
\* most one row whose edges differ.
ScenarioInputs ==
    { MakeAlignment(4, 30, Clean, odd, pat) :
        odd \in 1..4, pat \in {p \in Patterns : p.mid = "b"} }

\* The calls checked on them: the defaults, and a scan without smoothing.
ScenarioParams == { Defaults, <<1, 100, 65>> }

\* Up to MaxRows rows of up to MaxWidth columns: conserved rows with at most
\* one row of another pattern among them, or rows of one pattern throughout.
SmallInputs ==
    UNION { { MakeAlignment(n, w, Clean, odd, pat) :
                w \in 1..MaxWidth, odd \in 1..n, pat \in Patterns \ {Clean} }
            \cup
            { MakeAlignment(n, w, pat, 0, pat) : w \in 1..MaxWidth, pat \in Patterns }
          : n \in 1..MaxRows }

----------------------------------------------------------------------------
(* trim_alignment *)

Init ==
    /\ \/ /\ alignment \in SmallInputs
          /\ \E p \in Params :
                /\ window_size = p[1]
                /\ threshold = p[2]
                /\ proportion = p[3]
       \/ /\ alignment \in ScenarioInputs
          /\ \E p \in ScenarioParams :
                /\ window_size = p[1]
                /\ threshold = p[2]
                /\ proportion = p[3]
    /\ method = "unset"
    /\ pc = "call"
    /\ s1_trimmed = None
    /\ s2_trimmed = None
    /\ trimmed = None
    /\ clipA = NoClip
    /\ clipC = NoClip
    /\ rowTrims = <<>>
    /\ started = <<>>
    /\ returned = <<>>
    /\ outcome = "RUNNING"

\* An uncaught exception leaves trim_alignment.
Raise ==
    /\ pc' = "done"
    /\ outcome' = "FAULT"

\* method != 'notrim': s1_trimmed = self.stage_one_trimming(self.alignment, ...)
PassA ==
    /\ pc = "call"
    /\ method' = "running"
    /\ started' = Append(started, "A")
    /\ LET res == stage_one_trimming(alignment, window_size, threshold, proportion)
       IN  /\ returned' = Append(returned, res.kind)
           /\ clipA' = res.clip
           /\ IF IsFault(res)
              THEN Raise /\ UNCHANGED s1_trimmed
              ELSE /\ s1_trimmed' = [kind |-> res.kind, records |-> res.records]
                   /\ pc' = "B"
                   /\ UNCHANGED outcome
    /\ UNCHANGED <<alignment, window_size, threshold, proportion,
                   s2_trimmed, trimmed, clipC, rowTrims>>

\* Pass B masking the rows of its argument in place (orig_seq_array a view of
\* the row instead of a copy): s1_trimmed ends up masked as well.
PassBInPlace ==
    /\ pc = "B"
    /\ started' = Append(started, "B")
    /\ LET res == stage_two_trimming(s1_trimmed)
       IN  /\ returned' = Append(returned, res.kind)
           /\ rowTrims' = res.trims
           /\ IF IsFault(res)
              THEN Raise /\ UNCHANGED <<s1_trimmed, s2_trimmed>>
              ELSE /\ s2_trimmed' = [kind |-> res.kind, records |-> res.records]
                   /\ s1_trimmed' = IF res.kind = "msa"
                                    THEN [kind |-> res.kind, records |-> res.records]
                                    ELSE s1_trimmed
                   /\ pc' = "C"
                   /\ UNCHANGED outcome
    /\ UNCHANGED <<alignment, window_size, threshold, proportion, method,
                   trimmed, clipA, clipC>>

\* s2_trimmed = self.stage_two_trimming(s1_trimmed), whatever pass A returned
PassB ==
    /\ pc = "B"
    /\ started' = Append(started, "B")
    /\ LET res == stage_two_trimming(s1_trimmed)
       IN  /\ returned' = Append(returned, res.kind)
           /\ rowTrims' = res.trims
           /\ IF IsFault(res)
              THEN Raise /\ UNCHANGED s2_trimmed
              ELSE /\ s2_trimmed' = [kind |-> res.kind, records |-> res.records]
                   /\ pc' = "C"
                   /\ UNCHANGED outcome
    /\ UNCHANGED <<alignment, window_size, threshold, proportion, method,
                   s1_trimmed, trimmed, clipA, clipC>>

\* self.trimmed = self.stage_one_trimming(s2_trimmed, ...), whatever pass B returned
PassC ==
    /\ pc = "C"
    /\ started' = Append(started, "C")
    /\ LET res == stage_one_trimming(s2_trimmed, window_size, threshold, proportion)
       IN  /\ returned' = Append(returned, res.kind)
           /\ clipC' = res.clip
           /\ IF IsFault(res)
              THEN Raise /\ UNCHANGED trimmed
              ELSE /\ trimmed' = [kind |-> res.kind, records |-> res.records]
                   /\ pc' = "report"
                   /\ UNCHANGED outcome
    /\ UNCHANGED <<alignment, window_size, threshold, proportion, method,
                   s1_trimmed, s2_trimmed, clipA, rowTrims>>

\* _replace_ends applied to every row: the edge gap runs become '?'.
NoTrimReplaceEnds(a) ==
    MSA([r \in 1..Taxa(a) |->
            [id  |-> a.records[r].id,
             seq |-> [c \in 1..Width(a) |->
                        IF \/ c <= LeadingGaps(a.records[r].seq)
                           \/ c > Width(a) - TrailingGaps(a.records[r].seq)
                        THEN Missing
                        ELSE a.records[r].seq[c]]]])

\* self.trimmed = self.alignment
NoTrimResult(a) == a

\* method == 'notrim'
NoTrim ==
    /\ pc = "call"
    /\ method' = "notrim"
    /\ trimmed' = NoTrimResult(alignment)
    /\ pc' = "report"
    /\ UNCHANGED <<alignment, window_size, threshold, proportion, s1_trimmed,
                   s2_trimmed, clipA, clipC, rowTrims, started, returned,
                   outcome>>

\* "not self.trimmed": None, or an alignment without rows.
Falsy(a) == a.kind = "None" \/ Len(a.records) = 0

\* "if not self.trimmed: print ... dropped due to trimming"; the call returns.
Report ==
    /\ pc = "report"
    /\ outcome' = IF Falsy(trimmed) THEN "DROPPED" ELSE "DONE"
    /\ pc' = "done"
    /\ UNCHANGED <<alignment, window_size, threshold, proportion, method,
                   s1_trimmed, s2_trimmed, trimmed, clipA, clipC, rowTrims,
                   started, returned>>

Next ==
    \/ NoTrim
    \/ PassA
    \/ PassB
    \/ PassC
    \/ Report

Spec == Init /\ [][Next]_vars

----------------------------------------------------------------------------
(* Properties *)

Ran(k) == Len(returned) >= k

IsPrefix(s, t) == Len(s) <= Len(t) /\ \A i \in 1..Len(s) : s[i] = t[i]

SameLabels(a, b) ==
    /\ Taxa(a) = Taxa(b)
    /\ \A r \in 1..Taxa(a) : a.records[r].id = b.records[r].id

EqualRows(a) == \A r \in 1..Taxa(a) : Len(a.records[r].seq) = Width(a)

\* C1: with method 'running' the passes run in the order A, B, C; a pass that
\* yields no alignment is the last pass started and the call then ends DROPPED;
\* no call ends in anything but DONE or DROPPED.
C1_ShortCircuit ==
    /\ IsPrefix(started, <<"A", "B", "C">>)
    /\ \A k \in 1..Len(returned) : returned[k] # "msa" => Len(started) = k
    /\ pc = "done" => outcome \in {"DONE", "DROPPED"}
    /\ (pc = "done" /\ \E k \in 1..Len(returned) : returned[k] = "None")
            => outcome = "DROPPED"

\* C2: method 'notrim' starts none of the three passes and leaves self.trimmed
\* equal to the input alignment: same rows, labels, order and characters.
C2_NoTrimIdentity ==
    method = "notrim" => (started = <<>> /\ trimmed = alignment)

C2_Witness ==
    /\ method = "notrim"
    /\ pc = "done"
    /\ outcome = "DONE"
    /\ Taxa(trimmed) >= 2
    /\ \E r \in 1..Taxa(trimmed) : LeadingGaps(trimmed.records[r].seq) > 0

\* C3: every alignment a pass returns, and so every non-dropped result of
\* trim_alignment with method 'running', has rows of one length, and that
\* length is at most the width of the input alignment.
C3_WidthInvariant ==
    method = "running" =>
        \A a \in {s1_trimmed, s2_trimmed, trimmed} :
            a.kind = "msa" => (EqualRows(a) /\ Width(a) <= Width(alignment))

C3_Witness ==
    /\ method = "running"
    /\ outcome = "DONE"
    /\ Taxa(trimmed) >= 2
    /\ Width(trimmed) >= 1
    /\ Width(trimmed) < Width(s1_trimmed)
    /\ Width(s1_trimmed) < Width(alignment)

\* C4: every alignment returned by pass A, pass B, pass C, and the result of
\* the whole trim, has the rows of the input: as many, with the same labels in
\* the same order.  The only alternative is no alignment at all.
C4_RowsKept ==
    \A a \in {s1_trimmed, s2_trimmed, trimmed} :
        a.kind = "msa" => SameLabels(a, alignment)

C4_Witness ==
    /\ method = "running"
    /\ outcome = "DONE"
    /\ Taxa(alignment) >= 3
    /\ \E r \in 1..Taxa(trimmed) :
            trimmed.records[r].seq # trimmed.records[1].seq

\* C5: when the masking of pass B leaves a row of gap markers only (pass B
\* returns no alignment), the call ends DROPPED: no fault, no alignment.
C5_DropOnGappedRow ==
    (Ran(2) /\ returned[2] = "None" /\ pc = "done") => outcome = "DROPPED"

AllGaps(a) == \A r \in 1..Taxa(a) : OnlyGaps(a.records[r].seq)

\* C6: an alignment of gap markers only ends DROPPED, the scan of pass A having
\* found no column (NoStableRegion), whatever the parameters.
C6_UniformGapsDropped ==
    (method = "running" /\ AllGaps(alignment) /\ pc = "done")
        => (outcome = "DROPPED" /\ clipA.kind = "None")

\* 4 identical rows of width 30 without gaps, trimmed with the defaults.
ScenarioA ==
    /\ alignment = MakeAlignment(4, 30, Clean, 0, Clean)
    /\ <<window_size, threshold, proportion>> = Defaults
    /\ method = "running"

\* C7 as stated: the fully conserved block comes back unchanged.
C7_ConservedBlockUnchanged ==
    (ScenarioA /\ pc = "done") => (outcome = "DONE" /\ trimmed = alignment)

\* C7 (amended): the fully conserved block comes back as the same 4 rows cut to
\* the input columns 12..17: pass A keeps columns 5..24, pass B masks the two
\* outermost characters at either end of every row, pass C keeps columns 7..12
\* of what is left.  No kept character is masked.
C7_ConservedBlockClipped ==
    (ScenarioA /\ pc = "done") =>
        /\ outcome = "DONE"
        /\ <<clipA.start, clipA.end>> = <<5, 25>>
        /\ <<clipC.start, clipC.end>> = <<7, 13>>
        /\ trimmed = MSA([r \in 1..4 |->
                            [id  |-> r,
                             seq |-> [c \in 1..6 |-> alignment.records[r].seq[12 + c]]]])

C7_Witness == ScenarioA /\ pc = "done" /\ outcome = "DONE" /\ Width(trimmed) = 6

\* A row that is conserved but for a mismatching run of 3 at its very start.
ScenarioCPattern == [lk |-> "x", ll |-> 3, mid |-> "b", sym |-> FALSE]

\* Four gap-free rows, identical but for row odd, long enough for a conserved
\* run of 9 after the mismatching one.
ScenarioC(a, odd) ==
    /\ a.kind = "msa"
    /\ Taxa(a) = 4
    /\ Width(a) >= 12
    /\ \A r \in 1..4 :
            a.records[r].seq =
                MakeRow(Width(a), IF r = odd THEN ScenarioCPattern ELSE Clean)

\* C8: pass B on such an alignment replaces the 3 leading characters of the odd
\* row by gap markers and changes nothing else.
C8_OnlyLeadingRunMasked ==
    \A odd \in 1..4 :
        (Ran(2) /\ ScenarioC(s1_trimmed, odd)) =>
            s2_trimmed =
                MSA([r \in 1..4 |->
                        [id  |-> s1_trimmed.records[r].id,
                         seq |-> [c \in 1..Width(s1_trimmed) |->
                                    IF r = odd /\ c <= 3 THEN Gap
                                    ELSE s1_trimmed.records[r].seq[c]]]])

\* Columns lo .. lo + n - 1 (0-based) of every row of a.
ColumnsOf(a, lo, n) ==
    MSA([r \in 1..Taxa(a) |->
            [id  |-> a.records[r].id,
             seq |-> [c \in 1..n |-> a.records[r].seq[lo + c]]]])

\* The number of columns of an alignment of width w inside [clip.start, clip.end).
KeptWidth(clip, w) == Max(0, Min(clip.end, w) - clip.start)

\* Pass C only removes columns: its result is a run of columns of its input.
PassCOnlyRemoves ==
    (method = "running" /\ trimmed.kind = "msa") =>
        /\ clipC.start + Width(trimmed) <= Width(s2_trimmed)
        /\ Width(s2_trimmed) = Width(s1_trimmed)
        /\ trimmed = ColumnsOf(s2_trimmed, clipC.start, Width(trimmed))

NoRun(seq, consensus) ==
    FirstRun(MatchWindows(Compare(seq, consensus, get_ends(seq)))) = -1

\* C10: a row of pass B's input without such a run, at whatever position, makes
\* pass B fail (return no alignment); no row is emitted with trim points that
\* were computed from another row.
C10_NoRunFails ==
    (Ran(2) /\ s1_trimmed.kind = "msa") =>
        /\ (\E r \in 1..Taxa(s1_trimmed) :
                NoRun(s1_trimmed.records[r].seq, alignment_consensus(s1_trimmed)))
            => returned[2] = "None"
        /\ returned[2] = "msa" =>
                \A r \in 1..Len(rowTrims) : rowTrims[r].from = r

\* The row is not empty and holds missing-data markers only.
OnlyMissing(seq) == Len(seq) > 0 /\ \A c \in 1..Len(seq) : seq[c] = Missing

\* C11: no alignment returned by pass A, pass B or pass C has a row made of gap
\* markers only or a row made of missing-data markers only.
C11_NoBlankRow ==
    method = "running" =>
        \A a \in {s1_trimmed, s2_trimmed, trimmed} :
            a.kind = "msa" =>
                \A r \in 1..Taxa(a) :
                    /\ ~OnlyGaps(a.records[r].seq)
                    /\ ~OnlyMissing(a.records[r].seq)

\* The classification of one column as C12 states it.
StatedClass(col, majority) ==
    IF CountIn(col, Gap) > majority THEN "bad"
    ELSE IF (\E r \in DOMAIN col : col[r] # Gap) /\ MostCommonCount(col) >= majority
    THEN "good"
    ELSE "bad"

\* The alignments a scan was run on: the input of pass A, the input of pass C.
Scanned ==
    (IF Ran(1) THEN {alignment} ELSE {})
        \cup (IF Ran(3) /\ s2_trimmed.kind = "msa" THEN {s2_trimmed} ELSE {})

\* C12: running_average classifies every column of the alignment it is given,
\* without a fault: bad when the column has more than majority gap markers,
\* otherwise good exactly when its most frequent other character occurs at
\* least majority times, and bad when it holds gap markers only.
C12_ColumnsClassified ==
    /\ Ran(1) => clipA.kind # "IndexError"
    /\ Ran(3) => clipC.kind # "IndexError"
    /\ \A a \in Scanned :
            \A c \in 0..(Width(a) - 1) :
                ColumnClass(Column(a, c), majority_of_characters(proportion, Taxa(a)))
                    = StatedClass(Column(a, c), majority_of_characters(proportion, Taxa(a)))

\* The good columns of a inside the window of w columns centred on column i:
\* columns i - w div 2 .. i + (w - 1) div 2 (for an even w, the centring that
\* has the extra column on the left); columns outside the alignment count 0.
CentredCount(a, w, prop, i) ==
    Cardinality({j \in 0..(Width(a) - 1) :
                    /\ j >= i - (w \div 2)
                    /\ j <= i + ((w - 1) \div 2)
                    /\ ColumnClass(Column(a, j), majority_of_characters(prop, Taxa(a)))
                            = "good"})

\* The pair C13 states: the smallest and the largest column whose centred
\* score meets the threshold, or the None pair when no column does.
StatedScan(a, w, thr, prop) ==
    LET good == {i \in 0..(Width(a) - 1) :
                    CentredCount(a, w, prop, i) * 100 >= thr * w}
    IN  IF good = {}
        THEN [kind |-> "None", start |-> 0, end |-> 0]
        ELSE [kind  |-> "clip",
              start |-> CHOOSE i \in good : \A x \in good : i <= x,
              end   |-> CHOOSE i \in good : \A x \in good : x <= i]

\* C13: the pair running_average returns is the first and the last column
\* whose score, the share of good columns in the window centred on it, is at
\* least threshold, and the None pair exactly when there is no such column.
C13_CentredScan ==
    /\ (Ran(1) /\ clipA.kind \in {"clip", "None"})
            => clipA = StatedScan(alignment, window_size, threshold, proportion)
    /\ (Ran(3) /\ clipC.kind \in {"clip", "None"})
            => clipC = StatedScan(s2_trimmed, window_size, threshold, proportion)

\* Pass number k scanned a, the scan returned clip and the pass returned res:
\* the pass gives up for lack of a region only on the None pair; on a pair
\* (start, end) it takes the clipping branch, and returns the rows clipped to
\* the pair unless one of the clipped rows holds gap or missing-data markers only.
ClipsAsStated(k, a, clip, res) ==
    /\ (Ran(k) /\ clip.kind = "None") => res = None
    /\ (Ran(k) /\ clip.kind = "clip") =>
            /\ ClipUsable(clip)
            /\ \/ res = MSA([r \in 1..Taxa(a) |-> ClipRecord(a.records[r], clip)])
               \/ /\ res = None
                  /\ \E r \in 1..Taxa(a) :
                        \/ OnlyGaps(ClipRecord(a.records[r], clip).seq)
                        \/ OnlyMissing(ClipRecord(a.records[r], clip).seq)

\* C14: stage_one_trimming gives up for lack of a stable region exactly when
\* the scan returned the None pair; on any pair (start, end), a start or an
\* end of 0 included, it clips every row to the pair, and fails only when a
\* clipped row is made of gap or missing-data markers only.
C14_FailsOnlyOnNone ==
    /\ ClipsAsStated(1, alignment, clipA, s1_trimmed)
    /\ ClipsAsStated(3, s2_trimmed, clipC, trimmed)

\* Row out is row in with everything outside the columns lo .. hi - 1 replaced
\* by gap markers and everything inside them as it was; the columns lo .. hi - 1
\* exist and are at least one.
MaskedOutside(in, out, lo, hi) ==
    /\ Len(out) = Len(in)
    /\ 0 <= lo
    /\ lo < hi
    /\ hi <= Len(in)
    /\ \A c \in 1..Len(in) :
            out[c] = (IF c - 1 < lo \/ c - 1 >= hi THEN Gap ELSE in[c])

\* The trim points of row r of a, found from that row and the consensus alone.
OwnTrim(a, r) == RowStep(a.records[r], r, alignment_consensus(a), Unbound)

\* C15: every row pass B emits is its input row with the positions before
\* rowStart + badStart and from rowStart + badEnd on replaced by gap markers,
\* and the positions between them, which are at least one, left as they were;
\* rowStart is the length of the row's leading gap run and badStart, badEnd are
\* the trim points found for that row.
C15_CoreKept ==
    (Ran(2) /\ returned[2] = "msa") =>
        \A r \in 1..Taxa(s2_trimmed) :
            LET own == OwnTrim(s1_trimmed, r)
            IN  /\ own.carry.bound
                /\ MaskedOutside(s1_trimmed.records[r].seq,
                                 s2_trimmed.records[r].seq,
                                 own.trim.start + own.trim.bad_start,
                                 own.trim.start + own.trim.bad_end)

\* C16: no step of trim_alignment changes the input alignment, in either mode
\* and whatever the outcome, and no pass changes the alignment it is handed:
\* pass A self.alignment, pass B s1_trimmed, pass C s2_trimmed.
C16_InputUntouched ==
    [][/\ alignment' = alignment
       /\ pc = "B" => s1_trimmed' = s1_trimmed
       /\ pc = "C" => s2_trimmed' = s2_trimmed]_vars

C16_Witness ==
    /\ method = "running"
    /\ pc = "done"
    /\ outcome = "DONE"
    /\ s2_trimmed # s1_trimmed
    /\ Width(s1_trimmed) < Width(alignment)
    /\ Width(trimmed) < Width(s2_trimmed)

\* C17: for an input of at least one row and one column, every alignment pass A
\* hands to pass B, pass B hands to pass C, and pass C returns as the result
\* has at least one row and at least one column.
C17_NeverEmpty ==
    (method = "running" /\ Taxa(alignment) >= 1 /\ Width(alignment) >= 1) =>
        \A a \in {s1_trimmed, s2_trimmed, trimmed} :
            a.kind = "msa" => (Taxa(a) >= 1 /\ Width(a) >= 1)

\* a with rows i and j exchanged (the consensus is the same).
SwapRows(a, i, j) ==
    MSA([r \in 1..Taxa(a) |->
            IF r = i THEN a.records[j] ELSE IF r = j THEN a.records[i] ELSE a.records[r]])

\* C18: what pass B does with a row depends on the row and the consensus only:
\* every row it emits is what the row yields when no row precedes it, and
\* exchanging two rows of the input exchanges the two rows of the output and
\* changes nothing else.
C18_RowOutcomeLocal ==
    (Ran(2) /\ returned[2] = "msa") =>
        /\ \A r \in 1..Taxa(s1_trimmed) :
                /\ OwnTrim(s1_trimmed, r).kind = "row"
                /\ OwnTrim(s1_trimmed, r).rec = s2_trimmed.records[r]
        /\ \A i \in 1..Taxa(s1_trimmed) : \A j \in (i + 1)..Taxa(s1_trimmed) :
                LET res == stage_two_trimming(SwapRows(s1_trimmed, i, j))
                IN  /\ res.kind = "msa"
                    /\ res.records = SwapRows(s2_trimmed, i, j).records

====
